---- MODULE Spec2Model ----
(***************************************************************************)
(* Customer-churn prediction serving: the shared preprocessing pipeline    *)
(* (api/customer_pipeline.py), the model artifact as the inference script  *)
(* loads and calls it (test_inference.py), the API process (api/app.py)    *)
(* and the inference service built around them.                            *)
(*                                                                         *)
(* Numbers are integers; StandardScaler's output is kept in tenths.        *)
(* A raw record is an ordered mapping: a sequence of <<name, value>>.      *)
(***************************************************************************)
EXTENDS Integers, Sequences, FiniteSets, TLC

VARIABLES state, path, artifact, loads, health, pc, req, resp,
          made, harness, session, run

vars == <<state, path, artifact, loads, health, pc, req, resp,
          made, harness, session, run>>

\* What the service leaves alone: the estimator factory's calls, the
\* inference script and the client.
others == <<made, harness, session, run>>

\* Longest batch of records a request carries.
MaxBatch == 2

Range(s) == {s[k] : k \in 1..Len(s)}

RECURSIVE Flatten(_)
Flatten(ss) ==
  IF ss = <<>> THEN <<>>
  ELSE Flatten(SubSeq(ss, 1, Len(ss) - 1)) \o ss[Len(ss)]

RECURSIVE Sum(_)
Sum(s) == IF s = <<>> THEN 0 ELSE Sum(SubSeq(s, 1, Len(s) - 1)) + s[Len(s)]

RECURSIVE Dot(_, _)
Dot(a, b) ==
  IF a = <<>> THEN 0
  ELSE Dot(SubSeq(a, 1, Len(a) - 1), SubSeq(b, 1, Len(b) - 1))
       + a[Len(a)] * b[Len(b)]

(***************************************************************************)
(* Raw records                                                             *)
(***************************************************************************)
NaN == "NaN"

KeySeq(rec) == [k \in 1..Len(rec) |-> rec[k][1]]
Keys(rec) == Range(KeySeq(rec))
Has(rec, name) == name \in Keys(rec)
Get(rec, name) ==
  IF Has(rec, name)
  THEN rec[CHOOSE k \in 1..Len(rec) : rec[k][1] = name][2]
  ELSE NaN

Without(rec, name) == SelectSeq(rec, LAMBDA p : p[1] # name)
WithValue(rec, name, v) ==
  [k \in 1..Len(rec) |-> IF rec[k][1] = name THEN <<name, v>> ELSE rec[k]]
WithExtra(rec, name, v) == Append(rec, <<name, v>>)
SwapKeys(rec, i, j) ==
  [k \in 1..Len(rec) |-> IF k = i THEN rec[j] ELSE IF k = j THEN rec[i] ELSE rec[k]]

(***************************************************************************)
(* test_inference.py: the sample frame, column by column                   *)
(***************************************************************************)
sample_data ==
  << <<"creditScore",     <<740, 530, 789, 630>> >>,
     <<"age",             <<54, 38, 60, 45>> >>,
     <<"tenure",          <<1, 2, 3, 8>> >>,
     <<"balance",         <<126418, 342311, 564633, 112435>> >>,
     <<"numofProducts",   <<1, 1, 2, 1>> >>,
     <<"hasCrCard",       <<1, 0, 0, 0>> >>,
     <<"isActiveMember",  <<0, 0, 0, 0>> >>,
     <<"estimatedSalary", <<134420, 89121, 32123, 432>> >>,
     <<"isZeroBalance",   <<1, 0, 0, 0>> >>,
     <<"gender",          <<"Male", "Female", "Female", "Female">> >>,
     <<"geography",       <<"Germany", "Germany", "Germany", "Spain">> >> >>

\* Row i of the sample frame as a raw record.
Sample(i) == [k \in 1..Len(sample_data) |-> <<sample_data[k][1], sample_data[k][2][i]>>]

models == <<"models/global_best_model.pkl", "models/global_best_model_optuna.pkl">>

(***************************************************************************)
(* customer_pipeline.py: build_preprocessing                               *)
(***************************************************************************)
\* Variant: the categorical list with its last attribute left out.
car_attribs_short == <<"hasCrCard", "isActiveMember", "gender", "geography">>
car_attribs == <<"hasCrCard", "isActiveMember", "gender", "geography", "isZeroBalance">>
num_attribs == <<"creditScore", "age", "tenure", "balance", "numofProducts", "estimatedSalary">>

\* OneHotEncoder(handle_unknown=...); variant: the encoder's "error" policy.
handle_unknown_error == "error"
handle_unknown == "ignore"

\* ColumnTransformer(remainder=...); variant: unnamed columns passed through.
remainder_passthrough == "passthrough"
remainder == "drop"

\* The frame the pipeline is applied to: its column names, in order of
\* first appearance, and a column read by name.
RECURSIVE FrameColumns(_)
FrameColumns(X) ==
  IF X = <<>> THEN <<>>
  ELSE LET r == FrameColumns(SubSeq(X, 1, Len(X) - 1))
       IN r \o SelectSeq(KeySeq(X[Len(X)]), LAMBDA c : c \notin Range(r))

\* Variant: a column addressed by its position in the frame the pipeline
\* was fitted on, instead of by its name.
FitPosition(name) == CHOOSE k \in 1..Len(sample_data) : sample_data[k][1] = name
ColumnByPosition(X, name) == [i \in 1..Len(X) |-> X[i][FitPosition(name)][2]]
Column(X, name) == [i \in 1..Len(X) |-> Get(X[i], name)]

\* StandardScaler.transform: the fitted mean and scale, in tenths.
num_pipeline(art, col, j) ==
  [i \in 1..Len(col) |-> ((col[i] - art.mean[j]) * 10) \div art.scale[j]]

\* OneHotEncoder.transform: one indicator per fitted category.
Known(art, j, v) == \E k \in 1..Len(art.categories[j]) : art.categories[j][k] = v
cat_pipeline(art, col, j) ==
  [i \in 1..Len(col) |->
     [k \in 1..Len(art.categories[j]) |->
        IF art.categories[j][k] = col[i] THEN 1 ELSE 0]]

Result(ok, error, value) == [ok |-> ok, error |-> error, value |-> value]

\* ColumnTransformer.transform of the fitted build_preprocessing().
build_preprocessing(art, X) ==
  LET cols     == Range(FrameColumns(X))
      named    == Range(num_attribs) \cup Range(car_attribs)
      num      == [j \in 1..Len(num_attribs) |->
                     num_pipeline(art, Column(X, num_attribs[j]), j)]
      cat      == [j \in 1..Len(car_attribs) |->
                     cat_pipeline(art, Column(X, car_attribs[j]), j)]
      rest     == SelectSeq(FrameColumns(X), LAMBDA c : c \notin named)
      unknown  == \E j \in 1..Len(car_attribs) : \E i \in 1..Len(X) :
                     ~Known(art, j, Get(X[i], car_attribs[j]))
      row(i)   == [j \in 1..Len(num_attribs) |-> num[j][i]]
                  \o Flatten([j \in 1..Len(car_attribs) |-> cat[j][i]])
                  \o (IF remainder = "passthrough"
                      THEN [j \in 1..Len(rest) |-> Get(X[i], rest[j])]
                      ELSE <<>>)
  IN IF ~(named \subseteq cols) THEN Result(FALSE, "ValueError", <<>>)
     ELSE IF handle_unknown = "error" /\ unknown THEN Result(FALSE, "ValueError", <<>>)
     ELSE Result(TRUE, "", [i \in 1..Len(X) |-> row(i)])

(***************************************************************************)
(* The estimator of the fitted pipeline (a linear classifier)              *)
(***************************************************************************)
decision_function(art, row) == Dot(row, art.coef) + art.intercept

\* The raw decision values (what a regressor would return), and the class
\* labels the classifier returns.
estimator_scores(art, Xt) == [i \in 1..Len(Xt) |-> decision_function(art, Xt[i])]
estimator_predict(art, Xt) ==
  [i \in 1..Len(Xt) |-> art.classes[IF decision_function(art, Xt[i]) > 0 THEN 2 ELSE 1]]

\* model.predict(frame): transform, then the estimator's predict. The result
\* carries the pipeline object as the call leaves it.
RunPipeline(art, X) ==
  LET t == build_preprocessing(art, X)
  IN IF ~t.ok THEN [model |-> art, ok |-> FALSE, error |-> t.error, out |-> <<>>]
     ELSE IF \E i \in 1..Len(X) : Len(t.value[i]) # Len(art.coef)
     THEN [model |-> art, ok |-> FALSE, error |-> "ValueError", out |-> <<>>]
     ELSE [model |-> art, ok |-> TRUE, error |-> "", out |-> estimator_predict(art, t.value)]

\* Variant: a call that refits the scaler on the batch before predicting.
Refit(art, X) ==
  [art EXCEPT !.mean = [j \in 1..Len(num_attribs) |->
      IF \A i \in 1..Len(X) : Has(X[i], num_attribs[j])
      THEN Sum(Column(X, num_attribs[j])) \div Len(X)
      ELSE art.mean[j]]]
PipelineFitPredict(art, X) == RunPipeline(Refit(art, X), X)
PipelinePredict(art, X) == RunPipeline(art, X)

(***************************************************************************)
(* Artifacts on disk                                                       *)
(***************************************************************************)
Categories ==
  << <<0, 1>>, <<0, 1>>, <<"Female", "Male">>, <<"France", "Germany", "Spain">>, <<0, 1>> >>

Artifact1 ==
  [path       |-> models[1],
   mean       |-> <<650, 39, 5, 76000, 2, 100000>>,
   scale      |-> <<97, 10, 3, 62000, 1, 57000>>,
   categories |-> Categories,
   coef       |-> <<-1, 3, -1, 1, -2, 0,  1, -1,  6, -6,  2, -2,  -4, 8, -4,  0, 0>>,
   intercept  |-> -85,
   classes    |-> <<0, 1>>]

Artifact2 ==
  [path       |-> models[2],
   mean       |-> <<651, 38, 5, 76500, 2, 100100>>,
   scale      |-> <<96, 11, 3, 62400, 1, 57500>>,
   categories |-> Categories,
   coef       |-> <<0, 4, 0, 2, -3, -1,  0, 0,  5, -5,  3, -3,  -2, 5, -3,  1, -1>>,
   intercept  |-> -105,
   classes    |-> <<0, 1>>]

NoArtifact == [path |-> "none"]

MissingPath == "models/missing.pkl"
Paths == Range(models) \cup {MissingPath}
Files == [p \in Range(models) |-> IF p = models[1] THEN Artifact1 ELSE Artifact2]

\* joblib.load(model_path)
joblib_load(p) ==
  IF p \in DOMAIN Files THEN Result(TRUE, "", Files[p])
  ELSE Result(FALSE, "FileNotFoundError", NoArtifact)


(***************************************************************************)
(* customer_pipeline.py: make_estimator_for_name                           *)
(***************************************************************************)
\* Most calls of the factory in one run.
MaxCalls == 3

Estimator(kind, params) == [kind |-> kind, params |-> params]
NoEstimator == Estimator("none", <<>>)

RidgeClassifier == Estimator("RidgeClassifier", <<>>)
HistGradientBoostingClassifier ==
  Estimator("HistGradientBoostingClassifier", << <<"random_state", 42>> >>)
XGBClassifier ==
  Estimator("XGBClassifier",
            << <<"objective", "reg:squarederror">>, <<"random_state", 42>>,
               <<"n_estimators", 300>>, <<"learning_rate", "0.1">>,
               <<"max_depth", 6>>, <<"subsample", "0.8">>,
               <<"colsample_bytree", "0.8">>, <<"tree_method", "hist">>,
               <<"n_jobs", -1>> >>)
LGBMClassifier ==
  Estimator("LGBMClassifier",
            << <<"random_state", 42>>, <<"n_estimators", 300>>,
               <<"learning_rate", "0.05">>, <<"num_leaves", 31>>,
               <<"subsample", "0.8">>, <<"colsample_bytree", "0.8">>,
               <<"n_jobs", -1>> >>)

\* Variant: an unknown name falls back to the first estimator.
make_estimator_with_default(name) ==
  IF name = "histgradientboosting" THEN Result(TRUE, "", HistGradientBoostingClassifier)
  ELSE IF name = "xgboost" THEN Result(TRUE, "", XGBClassifier)
  ELSE IF name = "lightgbm" THEN Result(TRUE, "", LGBMClassifier)
  ELSE Result(TRUE, "", RidgeClassifier)
make_estimator_for_name(name) ==
  IF name = "ridge" THEN Result(TRUE, "", RidgeClassifier)
  ELSE IF name = "histgradientboosting" THEN Result(TRUE, "", HistGradientBoostingClassifier)
  ELSE IF name = "xgboost" THEN Result(TRUE, "", XGBClassifier)
  ELSE IF name = "lightgbm" THEN Result(TRUE, "", LGBMClassifier)
  ELSE Result(FALSE, "ValueError", NoEstimator)

\* The names the factory is called with.
FactoryNames ==
  {"ridge", "histgradientboosting", "xgboost", "lightgbm",
   "Ridge", "XGBoost", "LightGBM", "lightgbm ", "svm", ""}

\* One call: its name, the identity of the object it constructed, its outcome.
Call(name, id, result) == [name |-> name, id |-> id, result |-> result]

(***************************************************************************)
(* test_inference.py: test_model and main                                  *)
(***************************************************************************)
\* What lies behind a model path: a loadable artifact, no file, a file that
\* does not unpickle, or an artifact fitted on another column layout.
FileKinds == {"ok", "missing", "corrupt", "stale"}

StaleArtifact(p) == [Files[p] EXCEPT !.coef = SubSeq(Files[p].coef, 1, Len(num_attribs))]

\* joblib.load(model_path) on such a disk.
harness_load(kind, p) ==
  IF kind = "ok" THEN joblib_load(p)
  ELSE IF kind = "missing" THEN Result(FALSE, "FileNotFoundError", NoArtifact)
  ELSE IF kind = "corrupt" THEN Result(FALSE, "UnpicklingError", NoArtifact)
  ELSE Result(TRUE, "", StaleArtifact(p))

\* The frame test_model predicts on: every row of sample_data.
SampleFrame == [i \in 1..Len(sample_data[1][2]) |-> Sample(i)]

\* except Exception: every error raised in the try block is an Exception.
\* Variant: a handler for the missing file only.
CaughtOnlyMissing(exc) == exc = "FileNotFoundError"
Caught(exc) == exc \in {"FileNotFoundError", "UnpicklingError", "ValueError"}

\* f"${pred:,.2f}": formatting needs a number.
Formats(pred) == pred \in Int

\* all(results)
All(results) == \A k \in 1..Len(results) : results[k]

HarnessIdle ==
  [pc |-> "idle", files |-> [p \in Range(models) |-> "ok"], idx |-> 0,
   model |-> NoArtifact, predictions |-> <<>>, results |-> <<>>,
   success |-> FALSE, exit |-> -1, escaped |-> "none"]

\* test_model returns: main keeps the value and goes on to the next path,
\* or to its summary after the last one.
Returned(h, value) ==
  [h EXCEPT !.results = Append(h.results, value),
            !.model = NoArtifact,
            !.predictions = <<>>,
            !.idx = IF h.idx < Len(models) THEN h.idx + 1 ELSE h.idx,
            !.pc = IF h.idx < Len(models) THEN "load" ELSE "summary"]

\* An exception raised in test_model's try block: caught (test_model
\* returns False) or escaping the script.
Raised(h, exc) ==
  IF Caught(exc) THEN Returned(h, FALSE)
  ELSE [h EXCEPT !.pc = "crashed", !.escaped = exc, !.exit = 1]

(***************************************************************************)
(* streamlit/app.py: session state, health check, presets, predict         *)
(***************************************************************************)
\* Longest prediction history, and largest reset_trigger, followed.
MaxHistory == 2
MaxTrigger == 2

\* The schema's feature names.
numerical_features == Range(num_attribs)
categorical_features == Range(car_attribs)

PRESET_PROFILES ==
  [p \in {"Low Risk", "High Risk"} |->
     IF p = "Low Risk"
     THEN << <<"creditScore", 750>>, <<"age", 45>>, <<"tenure", 8>>,
             <<"balance", 100000>>, <<"numofProducts", 2>>, <<"hasCrCard", 1>>,
             <<"isActiveMember", 1>>, <<"estimatedSalary", 120000>>,
             <<"isZeroBalance", 0>>, <<"gender", "Female">>,
             <<"geography", "France">> >>
     ELSE << <<"creditScore", 740>>, <<"age", 54>>, <<"tenure", 8>>,
             <<"balance", 126418>>, <<"numofProducts", 1>>, <<"hasCrCard", 1>>,
             <<"isActiveMember", 0>>, <<"estimatedSalary", 134420>>,
             <<"isZeroBalance", 1>>, <<"gender", "Male">>,
             <<"geography", "Germany">> >>]

\* active_preset = None
None == "None"

\* The keys the script itself puts into st.session_state.
StateKeys == {"prediction_history", "reset_trigger", "active_preset"}

\* st.session_state. keys: every key present; form: where the widgets'
\* values come from (the schema's defaults, a preset, or the user's edits);
\* pc: waiting for an event ("ready") or about to run the script ("run").
SessionIdle ==
  [pc |-> "idle", keys |-> {}, prediction_history |-> <<>>, reset_trigger |-> 0,
   active_preset |-> None, form |-> "none"]

\* What a script run did: the button that started it, what the health check
\* said, whether the predict request was sent and how it ended; successes
\* counts the runs since the last clear that met the conditions of a
\* successful prediction.
Run(button, online, outcome, posted, successes) ==
  [button |-> button, online |-> online, outcome |-> outcome,
   posted |-> posted, successes |-> successes]
NoRun == Run("none", FALSE, "none", FALSE, 0)

\* check_api_health: GET /health, and GET / when that raises.
HealthOutcomes == {"200", "500", "exception"}
RootOutcomes == {"200", "404", "500", "exception"}
check_api_health(h, r) ==
  IF h # "exception" THEN h = "200"
  ELSE IF r # "exception" THEN r \in {"200", "404"}
  ELSE FALSE

\* How the POST to the predict endpoint ends: the request raises, another
\* status than 200, a 200 whose body is no JSON object, a 200 with no
\* predictions, a 200 with the label of the one instance.
PostOutcomes == {"exception", "non200", "badjson", "empty", "label0", "label1"}
Predictions(outcome) ==
  IF outcome = "label0" THEN <<0>> ELSE IF outcome = "label1" THEN <<1>> ELSE <<>>

\* The widgets: a key already in the session keeps its value, a new one
\* takes the active preset's value or the schema's default.
render_widgets(ss) ==
  [ss EXCEPT !.keys = @ \cup numerical_features \cup categorical_features,
             !.form = IF (numerical_features \cup categorical_features) \subseteq ss.keys
                      THEN ss.form
                      ELSE IF ss.active_preset # None
                              /\ ss.active_preset \in DOMAIN PRESET_PROFILES
                      THEN ss.active_preset
                      ELSE "median"]

\* Variant: only the numerical keys are removed.
apply_preset_numerical(ss, profile_type) ==
  [ss EXCEPT !.keys = {k \in ss.keys : ~(k \in numerical_features)},
             !.active_preset = profile_type,
             !.reset_trigger = @ + 1]
apply_preset(ss, profile_type) ==
  [ss EXCEPT !.keys = {k \in ss.keys :
                         ~(k \in numerical_features \/ k \in categorical_features)},
             !.active_preset = profile_type,
             !.reset_trigger = @ + 1]

\* The Reset to Defaults button.
reset_defaults(ss) ==
  [ss EXCEPT !.keys = {k \in ss.keys :
                         ~(k \in numerical_features \/ k \in categorical_features)},
             !.active_preset = None,
             !.reset_trigger = @ + 1]

\* A successful prediction, as the history is meant to count them: the API
\* reported online and a 200 response carrying a prediction.
Successful(api_online, outcome) == api_online /\ outcome \in {"label0", "label1"}

\* The predict button: the history after the run, and whether the request
\* was sent. Variant: the request is sent whatever the health check said.
HistoryEntry(prediction, inputs) == [prediction |-> prediction, inputs |-> inputs]
predict_ungated(history, api_online, outcome, user_input) ==
  IF outcome \in {"exception", "non200", "badjson"} THEN [history |-> history, posted |-> TRUE]
  ELSE IF Predictions(outcome) = <<>> THEN [history |-> history, posted |-> TRUE]
  ELSE [history |-> Append(history, HistoryEntry(Predictions(outcome)[1], user_input)),
        posted |-> TRUE]
predict_pressed(history, api_online, outcome, user_input) ==
  IF ~api_online THEN [history |-> history, posted |-> FALSE]
  ELSE IF outcome = "exception" THEN [history |-> history, posted |-> TRUE]
  ELSE IF outcome = "non200" THEN [history |-> history, posted |-> TRUE]
  ELSE IF outcome = "badjson" THEN [history |-> history, posted |-> TRUE]
  ELSE IF Predictions(outcome) = <<>> THEN [history |-> history, posted |-> TRUE]
  ELSE [history |-> Append(history, HistoryEntry(Predictions(outcome)[1], user_input)),
        posted |-> TRUE]

(***************************************************************************)
(* api/app.py: the health endpoint                                         *)
(***************************************************************************)
health_check == [status |-> "healthy"]

(***************************************************************************)
(* The inference service: load barrier, validation, prediction             *)
(***************************************************************************)
Clients == {"c1", "c2"}

Response(status, error, predictions) ==
  [status |-> status, error |-> error, predictions |-> predictions]
NoResponse == Response(0, "", <<>>)

RequiredFeatures == Range(num_attribs) \cup Range(car_attribs)

\* Validation of a batch: every record carries every required feature.
validate(batch) == \A i \in 1..Len(batch) : RequiredFeatures \subseteq Keys(batch[i])

\* What the service answers to a validated batch with the given artifact.
Answer(r) ==
  IF r.ok THEN Response(200, "", r.out) ELSE Response(500, "InferenceError", <<>>)

\* The load is due while no load has been attempted. Variant: a load is
\* started again whenever none is running.
NeedsLoadAlways(st) == st # "Loading"
NeedsLoad(st) == st = "Unloaded"

\* The records requests are made of: the sample rows, and variations of the
\* first one (a feature missing, an unseen category, an extra field, keys
\* in another order).
ValidRecords == {Sample(i) : i \in 1..Len(sample_data[1][2])}
MissingRecords == {Without(Sample(1), f) : f \in Keys(Sample(1))}
UnseenRecord == WithValue(Sample(1), "geography", "Mars")
ExtraRecord == WithExtra(Sample(2), "customerId", 15634602)
SwappedRecord == SwapKeys(Sample(4), 1, 2)
PredictRecords ==
  ValidRecords \cup MissingRecords \cup {UnseenRecord, ExtraRecord, SwappedRecord}
ServiceRecords == {Sample(1), Sample(4), Without(Sample(1), "age")}

Batches(R) == UNION {[1..n -> R] : n \in 1..MaxBatch}

Init ==
  /\ state = "Unloaded"
  /\ path \in Paths
  /\ artifact = NoArtifact
  /\ loads = 0
  /\ health = "none"
  /\ pc = [c \in Clients |-> "idle"]
  /\ req = [c \in Clients |-> <<>>]
  /\ resp = [c \in Clients |-> NoResponse]
  /\ made = <<>>
  /\ harness = HarnessIdle
  /\ session = SessionIdle
  /\ run = NoRun

\* Unloaded -> Loading: at startup, or lazily before the first request is served.
StartLoad ==
  /\ NeedsLoad(state)
  /\ state' = "Loading"
  /\ loads' = loads + 1
  /\ UNCHANGED <<path, artifact, health, pc, req, resp>>
  /\ UNCHANGED others

\* Loading -> Ready: joblib.load returned the artifact.
LoadOk ==
  /\ state = "Loading"
  /\ joblib_load(path).ok
  /\ artifact' = joblib_load(path).value
  /\ state' = "Ready"
  /\ UNCHANGED <<path, loads, health, pc, req, resp>>
  /\ UNCHANGED others

\* Loading -> Failed: joblib.load raised.
LoadFail ==
  /\ state = "Loading"
  /\ ~joblib_load(path).ok
  /\ state' = "Failed"
  /\ UNCHANGED <<path, artifact, loads, health, pc, req, resp>>
  /\ UNCHANGED others

\* GET /health
HealthCheck ==
  /\ health' = health_check.status
  /\ UNCHANGED <<state, path, artifact, loads, pc, req, resp>>
  /\ UNCHANGED others

\* A request arrives with a batch of records.
Receive(c, B) ==
  /\ pc[c] = "idle"
  /\ \E b \in B :
       /\ req' = [req EXCEPT ![c] = b]
       /\ resp' = [resp EXCEPT ![c] = NoResponse]
  /\ pc' = [pc EXCEPT ![c] = "received"]
  /\ UNCHANGED <<state, path, artifact, loads, health>>
  /\ UNCHANGED others

\* The load failed: the request is refused.
Refuse(c) ==
  /\ pc[c] = "received"
  /\ state = "Failed"
  /\ resp' = [resp EXCEPT ![c] = Response(503, "ArtifactLoadError", <<>>)]
  /\ pc' = [pc EXCEPT ![c] = "done"]
  /\ UNCHANGED <<state, path, artifact, loads, health, req>>
  /\ UNCHANGED others

\* Validation, once the artifact is loaded: the whole batch or nothing.
Validate(c) ==
  /\ pc[c] = "received"
  /\ state = "Ready"
  /\ IF validate(req[c])
     THEN /\ pc' = [pc EXCEPT ![c] = "validated"]
          /\ UNCHANGED resp
     ELSE /\ pc' = [pc EXCEPT ![c] = "done"]
          /\ resp' = [resp EXCEPT ![c] = Response(422, "ValidationError", <<>>)]
  /\ UNCHANGED <<state, path, artifact, loads, health, req>>
  /\ UNCHANGED others

\* model.predict on the validated batch.
Predict(c) ==
  /\ pc[c] = "validated"
  /\ LET r == PipelinePredict(artifact, req[c])
     IN /\ artifact' = r.model
        /\ resp' = [resp EXCEPT ![c] = Answer(r)]
  /\ pc' = [pc EXCEPT ![c] = "done"]
  /\ UNCHANGED <<state, path, loads, health, req>>
  /\ UNCHANGED others

\* The caller takes the response.
Return(c) ==
  /\ pc[c] = "done"
  /\ pc' = [pc EXCEPT ![c] = "idle"]
  /\ req' = [req EXCEPT ![c] = <<>>]
  /\ resp' = [resp EXCEPT ![c] = NoResponse]
  /\ UNCHANGED <<state, path, artifact, loads, health>>
  /\ UNCHANGED others

\* The service under concurrent requests.
Next ==
  \/ StartLoad
  \/ LoadOk
  \/ LoadFail
  \/ HealthCheck
  \/ \E c \in Clients : Receive(c, Batches(ServiceRecords))
  \/ \E c \in Clients : Refuse(c)
  \/ \E c \in Clients : Validate(c)
  \/ \E c \in Clients : Predict(c)
  \/ \E c \in Clients : Return(c)

Spec == Init /\ [][Next]_vars

\* One caller, every kind of record.
NextPredict ==
  \/ StartLoad
  \/ LoadOk
  \/ LoadFail
  \/ Receive("c1", Batches(PredictRecords))
  \/ Refuse("c1")
  \/ Validate("c1")
  \/ Predict("c1")
  \/ Return("c1")

SpecPredict == Init /\ [][NextPredict]_vars

(***************************************************************************)
(* The estimator factory, called repeatedly                                *)
(***************************************************************************)
FactoryCall ==
  /\ Len(made) < MaxCalls
  /\ \E n \in FactoryNames :
       made' = Append(made, Call(n, Len(made) + 1, make_estimator_for_name(n)))
  /\ UNCHANGED <<state, path, artifact, loads, health, pc, req, resp>>
  /\ UNCHANGED <<harness, session, run>>

NextFactory == FactoryCall

SpecFactory == Init /\ [][NextFactory]_vars

(***************************************************************************)
(* The inference script                                                    *)
(***************************************************************************)
InitHarness ==
  /\ state = "Unloaded"
  /\ path = models[1]
  /\ artifact = NoArtifact
  /\ loads = 0
  /\ health = "none"
  /\ pc = [c \in Clients |-> "idle"]
  /\ req = [c \in Clients |-> <<>>]
  /\ resp = [c \in Clients |-> NoResponse]
  /\ made = <<>>
  /\ \E f \in [Range(models) -> FileKinds] :
       harness = [HarnessIdle EXCEPT !.pc = "main", !.files = f]
  /\ session = SessionIdle
  /\ run = NoRun

HarnessFrame ==
  /\ UNCHANGED <<state, path, artifact, loads, health, pc, req, resp>>
  /\ UNCHANGED <<made, session, run>>

\* main: the first call of test_model.
HMain ==
  /\ harness.pc = "main"
  /\ harness' = [harness EXCEPT !.pc = "load", !.idx = 1]
  /\ HarnessFrame

\* test_model: joblib.load(model_path)
HLoad ==
  /\ harness.pc = "load"
  /\ LET r == harness_load(harness.files[models[harness.idx]], models[harness.idx])
     IN harness' = IF r.ok THEN [harness EXCEPT !.pc = "predict", !.model = r.value]
                   ELSE Raised(harness, r.error)
  /\ HarnessFrame

\* test_model: model.predict(sample_data)
HPredict ==
  /\ harness.pc = "predict"
  /\ LET r == PipelinePredict(harness.model, SampleFrame)
     IN harness' = IF r.ok THEN [harness EXCEPT !.pc = "print", !.predictions = r.out]
                   ELSE Raised(harness, r.error)
  /\ HarnessFrame

\* test_model: the predictions are printed and True is returned.
HPrint ==
  /\ harness.pc = "print"
  /\ harness' = IF \A i \in 1..Len(harness.predictions) : Formats(harness.predictions[i])
                THEN Returned(harness, TRUE)
                ELSE Raised(harness, "ValueError")
  /\ HarnessFrame

\* main: return all(results)
HSummary ==
  /\ harness.pc = "summary"
  /\ harness' = [harness EXCEPT !.pc = "exit", !.success = All(harness.results)]
  /\ HarnessFrame

\* exit(0 if success else 1)
HExit ==
  /\ harness.pc = "exit"
  /\ harness' = [harness EXCEPT !.pc = "exited",
                                !.exit = IF harness.success THEN 0 ELSE 1]
  /\ HarnessFrame

NextHarness ==
  \/ HMain
  \/ HLoad
  \/ HPredict
  \/ HPrint
  \/ HSummary
  \/ HExit

SpecHarness == InitHarness /\ [][NextHarness]_vars

(***************************************************************************)
(* The client: one action per script run                                   *)
(***************************************************************************)
InitClient ==
  /\ state = "Unloaded"
  /\ path = models[1]
  /\ artifact = NoArtifact
  /\ loads = 0
  /\ health = "none"
  /\ pc = [c \in Clients |-> "idle"]
  /\ req = [c \in Clients |-> <<>>]
  /\ resp = [c \in Clients |-> NoResponse]
  /\ made = <<>>
  /\ harness = HarnessIdle
  /\ session = [SessionIdle EXCEPT !.pc = "run", !.keys = StateKeys]
  /\ run = NoRun

ClientFrame ==
  /\ UNCHANGED <<state, path, artifact, loads, health, pc, req, resp>>
  /\ UNCHANGED <<made, harness>>

\* The script runs with no button pressed: the first run, or the run
\* st.rerun() starts.
RunScript ==
  /\ session.pc = "run"
  /\ \E h \in HealthOutcomes, r \in RootOutcomes :
       run' = Run("none", check_api_health(h, r), "none", FALSE, run.successes)
  /\ session' = [render_widgets(session) EXCEPT !.pc = "ready"]
  /\ ClientFrame

\* The user changes a widget.
EditWidget ==
  /\ session.pc = "ready"
  /\ \E h \in HealthOutcomes, r \in RootOutcomes :
       run' = Run("edit", check_api_health(h, r), "none", FALSE, run.successes)
  /\ session' = [render_widgets(session) EXCEPT !.form = "edited"]
  /\ ClientFrame

\* A preset button: apply_preset, then st.rerun().
PressPreset ==
  /\ session.pc = "ready"
  /\ session.reset_trigger < MaxTrigger
  /\ \E p \in DOMAIN PRESET_PROFILES :
       /\ session' = [apply_preset(session, p) EXCEPT !.pc = "run"]
       /\ \E h \in HealthOutcomes, r \in RootOutcomes :
            run' = Run(p, check_api_health(h, r), "none", FALSE, run.successes)
  /\ ClientFrame

\* The Reset to Defaults button, then st.rerun().
PressReset ==
  /\ session.pc = "ready"
  /\ session.reset_trigger < MaxTrigger
  /\ session' = [reset_defaults(session) EXCEPT !.pc = "run"]
  /\ \E h \in HealthOutcomes, r \in RootOutcomes :
       run' = Run("reset", check_api_health(h, r), "none", FALSE, run.successes)
  /\ ClientFrame

\* The predict button.
PressPredict ==
  /\ session.pc = "ready"
  /\ \E h \in HealthOutcomes, r \in RootOutcomes, o \in PostOutcomes :
       LET online == check_api_health(h, r)
           rendered == render_widgets(session)
           res == predict_pressed(session.prediction_history, online, o, rendered.form)
       IN /\ Len(res.history) <= MaxHistory
          /\ session' = [rendered EXCEPT !.prediction_history = res.history]
          /\ run' = Run("predict", online, IF res.posted THEN o ELSE "none", res.posted,
                        IF Successful(online, o) THEN run.successes + 1
                        ELSE run.successes)
  /\ ClientFrame

\* The Clear History button (shown while the history is not empty), then
\* st.rerun().
PressClear ==
  /\ session.pc = "ready"
  /\ session.prediction_history # <<>>
  /\ session' = [render_widgets(session) EXCEPT !.prediction_history = <<>>, !.pc = "run"]
  /\ \E h \in HealthOutcomes, r \in RootOutcomes :
       run' = Run("clear", check_api_health(h, r), "none", FALSE, 0)
  /\ ClientFrame

NextClient ==
  \/ RunScript
  \/ EditWidget
  \/ PressPreset
  \/ PressReset
  \/ PressPredict
  \/ PressClear

SpecClient == InitClient /\ [][NextClient]_vars

(***************************************************************************)
(* Properties                                                              *)
(***************************************************************************)
Done(c) == pc[c] = "done" /\ state = "Ready"
Reverse(s) == [k \in 1..Len(s) |-> s[Len(s) + 1 - k]]
Restrict(rec) == SelectSeq(rec, LAMBDA p : p[1] \in RequiredFeatures)

\* C1: the load state only ever moves Unloaded -> Loading, Loading -> Ready
\* or Loading -> Failed; Loading is never entered a second time.
C1_Lifecycle ==
  [][state' # state =>
       <<state, state'>> \in {<<"Unloaded", "Loading">>,
                              <<"Loading", "Ready">>,
                              <<"Loading", "Failed">>}]_vars

\* The load has ended (either way) and a request was answered after it.
C1_Witness ==
  /\ state \in {"Ready", "Failed"}
  /\ loads = 1
  /\ \E c \in Clients : pc[c] = "done"

\* C2: the health surface reports healthy only when the artifact has been
\* loaded successfully.
C2_HealthyOnlyWhenLoaded ==
  health = "healthy" => (state = "Ready" /\ artifact # NoArtifact)

\* C3: predictions are answered only after a successful load, and the load
\* is executed exactly once however many requests are handled.
C3_LoadOnceBeforeServing ==
  /\ loads <= 1
  /\ \A c \in Clients :
       /\ resp[c].status = 200 =>
            (state = "Ready" /\ loads = 1 /\ artifact = joblib_load(path).value)
       /\ pc[c] \in {"validated", "done"} => loads = 1

\* Two requests answered with predictions, one load.
C3_Witness ==
  /\ loads = 1
  /\ \A c \in Clients : pc[c] = "done" /\ resp[c].status = 200

\* C4: a batch with a record lacking any required feature fails as a whole
\* with ValidationError and no predictions, wherever the record sits.
ClaimFeatures ==
  {"creditScore", "age", "tenure", "balance", "numofProducts", "estimatedSalary",
   "hasCrCard", "isActiveMember", "gender", "geography", "isZeroBalance"}
Lacking(batch) ==
  \E i \in 1..Len(batch) : \E f \in ClaimFeatures : ~Has(batch[i], f)
C4_AllOrNothing ==
  \A c \in Clients :
    (state = "Ready" /\ Lacking(req[c])) =>
       /\ pc[c] # "validated"
       /\ pc[c] = "done" =>
            /\ resp[c].status = 422
            /\ resp[c].error = "ValidationError"
            /\ resp[c].predictions = <<>>

\* A two-record batch, the first record valid and the second lacking a
\* feature, refused whole.
C4_Witness ==
  /\ Done("c1")
  /\ Len(req["c1"]) = 2
  /\ validate(<<req["c1"][1]>>)
  /\ ~validate(<<req["c1"][2]>>)
  /\ resp["c1"].status = 422

\* C5: for a batch of valid records the output has the input's length and
\* order: the i-th output is the prediction of the i-th record alone, and
\* reversing the batch reverses the output.
PredictAlone(rec) == RunPipeline(joblib_load(path).value, <<rec>>).out[1]
C5_OrderAndIndependence ==
  \A c \in Clients :
    (Done(c) /\ validate(req[c])) =>
       /\ resp[c].status = 200
       /\ Len(resp[c].predictions) = Len(req[c])
       /\ \A i \in 1..Len(req[c]) :
            resp[c].predictions[i] = PredictAlone(req[c][i])
       /\ PipelinePredict(artifact, Reverse(req[c])).out = Reverse(resp[c].predictions)

\* A batch answered with predictions that differ.
C5_Witness ==
  /\ Done("c1")
  /\ Len(req["c1"]) = 2
  /\ resp["c1"].status = 200
  /\ resp["c1"].predictions[1] # resp["c1"].predictions[2]

\* C6: a category unseen at fit time is accepted, encoded as all zeros, and
\* the record gets a prediction.
UnseenAt(art, batch, i, j) ==
  Has(batch[i], car_attribs[j]) /\ ~Known(art, j, Get(batch[i], car_attribs[j]))
Zeros(v) == \A k \in 1..Len(v) : v[k] = 0
C6_UnknownCategory ==
  \A c \in Clients :
    (Done(c) /\ validate(req[c])) =>
       \A i \in 1..Len(req[c]) : \A j \in 1..Len(car_attribs) :
          UnseenAt(artifact, req[c], i, j) =>
             /\ resp[c].status = 200
             /\ Len(resp[c].predictions) = Len(req[c])
             /\ Zeros(cat_pipeline(artifact, Column(req[c], car_attribs[j]), j)[i])

\* A record with an unseen geography answered with a prediction.
C6_Witness ==
  /\ Done("c1")
  /\ \E i \in 1..Len(req["c1"]) : req["c1"][i] = UnseenRecord
  /\ resp["c1"].status = 200

\* C7: fields beyond the required features are ignored: the answer is that
\* of the records restricted to the required features.
C7_ExtraFieldsIgnored ==
  \A c \in Clients :
    (Done(c) /\ validate(req[c])) =>
       /\ resp[c].status = 200
       /\ resp[c].predictions =
            PipelinePredict(artifact, [i \in 1..Len(req[c]) |-> Restrict(req[c][i])]).out

\* A record carrying an extra field answered with a prediction.
C7_Witness ==
  /\ Done("c1")
  /\ \E i \in 1..Len(req["c1"]) : ~(Keys(req["c1"][i]) \subseteq RequiredFeatures)
  /\ resp["c1"].status = 200

\* C8: the feature row does not depend on the order of a record's keys:
\* numeric attributes come first, in the pipeline's order, and exchanging
\* two neighbouring keys of every record changes neither the rows nor the
\* answer.
KeySwaps == {<<i, i + 1>> : i \in 1..8} \cup {<<10, 11>>}
Swapped(batch, i, j) == [k \in 1..Len(batch) |-> SwapKeys(batch[k], i, j)]
C8_KeyOrderIndependent ==
  \A c \in Clients :
    (Done(c) /\ resp[c].status = 200) =>
       /\ \A i \in 1..Len(req[c]) : \A j \in 1..Len(num_attribs) :
            build_preprocessing(artifact, req[c]).value[i][j] =
              ((Get(req[c][i], num_attribs[j]) - artifact.mean[j]) * 10)
                 \div artifact.scale[j]
       /\ \A s \in KeySwaps :
            /\ build_preprocessing(artifact, Swapped(req[c], s[1], s[2])).value =
                 build_preprocessing(artifact, req[c]).value
            /\ PipelinePredict(artifact, Swapped(req[c], s[1], s[2])).out =
                 resp[c].predictions

\* A record whose keys come in another order than the fitted frame's,
\* answered with a prediction.
C8_Witness ==
  /\ Done("c1")
  /\ \E i \in 1..Len(req["c1"]) : req["c1"][i] = SwappedRecord
  /\ resp["c1"].status = 200

AloneResponse(art, batch) ==
  IF validate(batch) THEN Answer(PipelinePredict(art, batch))
  ELSE Response(422, "ValidationError", <<>>)
C10_Independent ==
  /\ state = "Ready" => artifact = joblib_load(path).value
  /\ \A c \in Clients :
       /\ Done(c) => resp[c] = AloneResponse(joblib_load(path).value, req[c])
       /\ resp[c].status = 422 => state = "Ready"

\* One request refused by validation while another is answered.
C10_Witness ==
  /\ Done("c1") /\ resp["c1"].status = 422
  /\ Done("c2") /\ resp["c2"].status = 200

\* C11: the factory is closed: exactly the names ridge,
\* histgradientboosting, xgboost and lightgbm yield a fresh estimator of
\* their kind, every other name raises ValueError and yields none, and
\* earlier calls change nothing about which names are accepted.
KindOf ==
  [n \in {"ridge", "histgradientboosting", "xgboost", "lightgbm"} |->
     IF n = "ridge" THEN "RidgeClassifier"
     ELSE IF n = "histgradientboosting" THEN "HistGradientBoostingClassifier"
     ELSE IF n = "xgboost" THEN "XGBClassifier"
     ELSE "LGBMClassifier"]
C11_ClosedFactory ==
  /\ \A k \in 1..Len(made) :
       IF made[k].name \in DOMAIN KindOf
       THEN /\ made[k].result.ok
            /\ made[k].result.value.kind = KindOf[made[k].name]
       ELSE /\ ~made[k].result.ok
            /\ made[k].result.error = "ValueError"
            /\ made[k].result.value = NoEstimator
  /\ \A k, l \in 1..Len(made) :
       /\ (k # l /\ made[k].result.ok /\ made[l].result.ok) => made[k].id # made[l].id
       /\ made[k].name = made[l].name => made[k].result = made[l].result

\* A name in another case refused, then the same estimator made twice.
C11_Witness ==
  /\ Len(made) = 3
  /\ made[1].name = "Ridge" /\ ~made[1].result.ok
  /\ made[2].name = "ridge" /\ made[2].result.ok
  /\ made[3].name = "ridge" /\ made[3].result.ok /\ made[3].id # made[2].id

\* C12: no failure escapes the script; test_model returns True exactly when
\* the load and the predict both complete; main calls it for every path,
\* returns True iff every call did, and the exit code is 0 iff main
\* returned True.
C12_HarnessVerdict ==
  /\ harness.escaped = "none"
  /\ harness.pc # "crashed"
  /\ \A k \in 1..Len(harness.results) :
       harness.results[k] = (harness.files[models[k]] = "ok")
  /\ harness.pc \in {"summary", "exit", "exited"} =>
       Len(harness.results) = Len(models)
  /\ harness.pc \in {"exit", "exited"} =>
       (harness.success <=> \A p \in Range(models) : harness.files[p] = "ok")
  /\ harness.pc = "exited" => (harness.exit = 0 <=> harness.success)
  /\ harness.pc # "exited" => harness.exit = -1

\* The first model fails at predict, the second is still tested and passes,
\* and the script exits with 1.
C12_Witness ==
  /\ harness.pc = "exited"
  /\ harness.files[models[1]] = "stale"
  /\ harness.results = <<FALSE, TRUE>>
  /\ harness.exit = 1


\* Script runs seen as steps: the history before and after, by the run.
Grew(h, g) == Len(g) = Len(h) + 1 /\ SubSeq(g, 1, Len(h)) = h

\* C13: prediction_history grows by exactly one entry on a script run if and
\* only if the predict button was pressed, the health check reported the API
\* online, and the POST returned 200 with a non-empty predictions list; no
\* predict request is sent when the API is reported offline; every other run
\* leaves the history unchanged, except Clear History, which empties it. So
\* the history's length is the number of successful predictions since the
\* last clear.
C13_HistoryGrowth ==
  /\ [](Len(session.prediction_history) = run.successes)
  /\ [][LET h == session.prediction_history
            g == session'.prediction_history
            success == /\ run'.button = "predict"
                       /\ run'.online
                       /\ run'.posted
                       /\ run'.outcome \in {"label0", "label1"}
        IN /\ Grew(h, g) <=> success
           /\ ~run'.online => ~run'.posted
           /\ run'.posted => run'.button = "predict"
           /\ run'.button = "clear" => g = <<>>
           /\ (~success /\ run'.button # "clear") => g = h]_vars

C13_Witness ==
  /\ Len(session.prediction_history) = 2
  /\ run.button = "predict"
  /\ run.online
  /\ run.posted
  /\ run.outcome = "empty"
  /\ run.successes = 2

\* C14: applying a preset and resetting to defaults each remove every
\* session-state entry keyed by a numerical or categorical feature name, add
\* exactly 1 to reset_trigger and leave prediction_history (and every other
\* entry) as it was; a preset p sets active_preset to p and a reset sets it
\* to None. So reset_trigger never decreases, and active_preset is always
\* None or a key of PRESET_PROFILES.
C14_PresetAndReset ==
  /\ [](session.active_preset \in {None, "Low Risk", "High Risk"})
  /\ [][/\ session'.reset_trigger >= session.reset_trigger
        /\ run'.button \in DOMAIN PRESET_PROFILES \cup {"reset"} =>
             /\ session'.keys \cap (numerical_features \cup categorical_features) = {}
             /\ session'.keys = session.keys \ (numerical_features \cup categorical_features)
             /\ StateKeys \subseteq session'.keys
             /\ session'.reset_trigger = session.reset_trigger + 1
             /\ session'.prediction_history = session.prediction_history
             /\ session'.active_preset =
                  IF run'.button = "reset" THEN None ELSE run'.button
        /\ run'.button \notin DOMAIN PRESET_PROFILES \cup {"reset"} =>
             /\ session'.reset_trigger = session.reset_trigger
             /\ session'.active_preset = session.active_preset]_vars

C14_Witness ==
  /\ run.button = "reset"
  /\ session.pc = "run"
  /\ session.keys = StateKeys
  /\ session.active_preset = None
  /\ session.reset_trigger = 2
  /\ Len(session.prediction_history) = 1

====
